---------------------------- MODULE Spec2Model ----------------------------
(***************************************************************************)
(* LaTeX Definer (src/main.js): the glossary's command dispatcher, its     *)
(* definition store, the match engine, the editor session and the terminal *)
(* history, as a state machine.                                            *)
(*                                                                         *)
(* Strings are sequences of one-character strings, so that toLowerCase,    *)
(* split, trim, join and includes are computed as JavaScript computes      *)
(* them.  Array positions are 0-based in the state, as in the source; the  *)
(* sequences that hold the arrays are 1-based, so position i of an array   *)
(* is element i + 1 of its sequence.                                       *)
(***************************************************************************)
EXTENDS Integers, Sequences, FiniteSets, TLC

VARIABLES
    definitions,        \* Data.definitions: the live collection
    persisted,          \* localStorage[STORAGE_KEY], as last written by persist
    commandHistory,     \* Data.commandHistory
    historyIndex,       \* App.historyIndex, the recall cursor
    commandInput,       \* commandInput.value
    currentEditIndex,   \* Commands.currentEditIndex
    sessionEntry,       \* history: the defToEdit of the last openEditor, <<>> for none
    pendingImportData,  \* Commands.pendingImportData: <<>> is null, <<D>> is D
    reads,              \* the files being read, in the order of their import commands;
                        \* history: overtaken, set once a later import command has
                        \* loaded a file whose content differs from this one's
    editorOpen,         \* the editor modal is shown (not "hidden")
    termInput,          \* the editor's four fields and its message line
    aliasesInput,
    tagsInput,
    definitionInput,
    editorMessage,
    result,             \* what the last handler handed to the renderer
    measured,           \* three strings and the distances computed between them
    lastOp              \* the last event handled and its input

vars == <<definitions, persisted, commandHistory, historyIndex, commandInput,
          currentEditIndex, sessionEntry, pendingImportData, reads, editorOpen,
          termInput, aliasesInput, tagsInput, definitionInput, editorMessage,
          result, measured, lastOp>>

-----------------------------------------------------------------------------
(* Bounds of the model. *)

\* add sessions are offered while the collection is shorter than this
MaxDefs == 3
\* the longest string whose distances are measured
MaxWord == 3
\* import invocations per run
MaxImports == 2
\* commands entered while the history is shorter than this
MaxHistory == 3
\* length of the collections the match engine is run on
MaxFindDefs == 3

-----------------------------------------------------------------------------
(* JavaScript strings and arrays. *)

\* currentEditIndex = null; also findIndex's "not found"
Null == -1

SP == " "
COMMA == ","

LowerOf == [A |-> "a", B |-> "b", C |-> "c", D |-> "d", E |-> "e", F |-> "f",
            G |-> "g", H |-> "h", I |-> "i", J |-> "j", K |-> "k", L |-> "l",
            M |-> "m", N |-> "n", O |-> "o", P |-> "p", Q |-> "q", R |-> "r",
            S |-> "s", T |-> "t", U |-> "u", V |-> "v", W |-> "w", X |-> "x",
            Y |-> "y", Z |-> "z"]

lowerChar(c) == IF c \in DOMAIN LowerOf THEN LowerOf[c] ELSE c

RECURSIVE toLowerCase(_)
toLowerCase(s) ==
    IF s = <<>> THEN <<>> ELSE <<lowerChar(Head(s))>> \o toLowerCase(Tail(s))

\* String.prototype.includes: sub occurs in s at some offset
includes(s, sub) ==
    \E i \in 0..(Len(s) - Len(sub)) : SubSeq(s, i + 1, i + Len(sub)) = sub

\* Array.prototype.includes
arrayIncludes(arr, x) == \E i \in 1..Len(arr) : arr[i] = x

RECURSIVE trimStart(_)
trimStart(s) == IF s # <<>> /\ Head(s) = SP THEN trimStart(Tail(s)) ELSE s

RECURSIVE trimEnd(_)
trimEnd(s) ==
    IF s # <<>> /\ s[Len(s)] = SP THEN trimEnd(SubSeq(s, 1, Len(s) - 1)) ELSE s

trim(s) == trimEnd(trimStart(s))

\* String.prototype.split(sep) for a one-character separator: always at least
\* one piece, and an empty piece between two adjacent separators
RECURSIVE splitFrom(_, _, _)
splitFrom(s, sep, piece) ==
    IF s = <<>> THEN <<piece>>
    ELSE IF Head(s) = sep THEN <<piece>> \o splitFrom(Tail(s), sep, <<>>)
    ELSE splitFrom(Tail(s), sep, Append(piece, Head(s)))

split(s, sep) == splitFrom(s, sep, <<>>)

\* Array.prototype.join
RECURSIVE join(_, _)
join(arr, sep) ==
    IF arr = <<>> THEN <<>>
    ELSE IF Len(arr) = 1 THEN arr[1]
    ELSE arr[1] \o sep \o join(Tail(arr), sep)

\* arr.filter(x => x !== drop)
RECURSIVE filterNot(_, _)
filterNot(arr, drop) ==
    IF arr = <<>> THEN <<>>
    ELSE (IF Head(arr) # drop THEN <<Head(arr)>> ELSE <<>>) \o filterNot(Tail(arr), drop)

\* arr.slice(1)
slice1(arr) == IF arr = <<>> THEN <<>> ELSE Tail(arr)

-----------------------------------------------------------------------------
(* The words of the command line. *)

kwHelp == <<"h", "e", "l", "p">>
kwClear == <<"c", "l", "e", "a", "r">>
kwList == <<"l", "i", "s", "t">>
kwLs == <<"l", "s">>
kwAdd == <<"a", "d", "d">>
kwEdit == <<"e", "d", "i", "t">>
kwDelete == <<"d", "e", "l", "e", "t", "e">>
kwRm == <<"r", "m">>
kwFind == <<"f", "i", "n", "d">>
kwImport == <<"i", "m", "p", "o", "r", "t">>
kwExport == <<"e", "x", "p", "o", "r", "t">>

RESERVED_COMMANDS ==
    <<kwHelp, kwClear, kwList, kwLs, kwAdd, kwEdit, kwDelete, kwRm, kwFind,
      kwImport, kwExport>>

confirmFlag == <<"-", "-", "c", "o", "n", "f", "i", "r", "m">>

\* what assigning undefined to an input's value leaves in it
undefinedText == <<"u", "n", "d", "e", "f", "i", "n", "e", "d">>

-----------------------------------------------------------------------------
(* UTILITY MODULE *)

Min3(x, y, z) == IF x <= y /\ x <= z THEN x ELSE IF y <= z THEN y ELSE z

\* levenshteinDistance without the step that comes from the column to the left
levenshteinNoLeftStep(a, b) ==
    LET matrix[j \in 0..Len(b), i \in 0..Len(a)] ==
            IF j = 0 THEN i
            ELSE IF i = 0 THEN j
            ELSE LET indicator == IF a[i] = b[j] THEN 0 ELSE 1
                 IN  Min3(matrix[j - 1, i] + 1, matrix[j - 1, i] + 1,
                          matrix[j - 1, i - 1] + indicator)
    IN  matrix[Len(b), Len(a)]

\* the matrix of levenshteinDistance: row j is a prefix of b, column i a prefix of a
levenshteinDistance(a, b) ==
    LET matrix[j \in 0..Len(b), i \in 0..Len(a)] ==
            IF j = 0 THEN i
            ELSE IF i = 0 THEN j
            ELSE LET indicator == IF a[i] = b[j] THEN 0 ELSE 1
                 IN  Min3(matrix[j, i - 1] + 1, matrix[j - 1, i] + 1,
                          matrix[j - 1, i - 1] + indicator)
    IN  matrix[Len(b), Len(a)]

-----------------------------------------------------------------------------
(* DATA MODULE *)

\* An array slot that holds no element: what an assignment past the end of the
\* array leaves between the old end and the new element.  Reading a property of
\* it throws a TypeError.
Undefined ==
    [term |-> <<"<hole>">>, aliases |-> <<>>, tags |-> <<>>, definition |-> <<>>]

Definition(t, al, tg, body) ==
    [term |-> t, aliases |-> al, tags |-> tg, definition |-> body]

\* JSON.stringify writes an empty slot as null
JsonNull ==
    [term |-> <<"<null>">>, aliases |-> <<>>, tags |-> <<>>, definition |-> <<>>]

RECURSIVE stringify(_)
stringify(defs) ==
    IF defs = <<>> THEN <<>>
    ELSE <<IF Head(defs) = Undefined THEN JsonNull ELSE Head(defs)>>
         \o stringify(Tail(defs))

\* arr.map(a => a.toLowerCase())
RECURSIVE mapToLowerCase(_)
mapToLowerCase(arr) ==
    IF arr = <<>> THEN <<>>
    ELSE <<toLowerCase(Head(arr))>> \o mapToLowerCase(Tail(arr))

aliasesLowerOf(def) == mapToLowerCase(def.aliases)

\* the test of findMatches and findDefinitionAndIndex for an exact hit
isExact(def, searchTerm) ==
    \/ toLowerCase(def.term) = searchTerm
    \/ arrayIncludes(aliasesLowerOf(def), searchTerm)

\* isPartial as it would be had the aliases been left out of the test
isPartialTermOnly(def, searchTerm) ==
    includes(toLowerCase(def.term), searchTerm)

\* the test of findMatches for a partial hit
isPartial(def, searchTerm) ==
    \/ includes(toLowerCase(def.term), searchTerm)
    \/ \E k \in 1..Len(def.aliases) : includes(toLowerCase(def.aliases[k]), searchTerm)

\* findMatchesFrom as it would be had the partial test come first: an entry
\* that equals the query also contains it, and is collected as a partial match
RECURSIVE findMatchesPartialFirst(_, _, _, _)
findMatchesPartialFirst(defs, i, searchTerm, partialMatches) ==
    IF i > Len(defs)
    THEN [threw |-> FALSE, exactMatch |-> <<>>, partialMatches |-> partialMatches]
    ELSE IF defs[i] = Undefined
    THEN [threw |-> TRUE, exactMatch |-> <<>>, partialMatches |-> <<>>]
    ELSE IF isPartial(defs[i], searchTerm)
    THEN findMatchesPartialFirst(defs, i + 1, searchTerm,
                                 Append(partialMatches, defs[i]))
    ELSE IF isExact(defs[i], searchTerm)
    THEN [threw |-> FALSE, exactMatch |-> <<defs[i]>>, partialMatches |-> <<>>]
    ELSE findMatchesPartialFirst(defs, i + 1, searchTerm, partialMatches)

\* The loop of findMatches from array position i - 1 on, with the partial
\* matches collected so far.  exactMatch is <<>> for null and <<def>> for def;
\* threw is set when the loop reads a property of an empty slot.
RECURSIVE findMatchesFrom(_, _, _, _)
findMatchesFrom(defs, i, searchTerm, partialMatches) ==
    IF i > Len(defs)
    THEN [threw |-> FALSE, exactMatch |-> <<>>, partialMatches |-> partialMatches]
    ELSE IF defs[i] = Undefined
    THEN [threw |-> TRUE, exactMatch |-> <<>>, partialMatches |-> <<>>]
    ELSE IF isExact(defs[i], searchTerm)
    THEN [threw |-> FALSE, exactMatch |-> <<defs[i]>>, partialMatches |-> <<>>]
    ELSE findMatchesFrom(defs, i + 1, searchTerm,
                         IF isPartial(defs[i], searchTerm)
                         THEN Append(partialMatches, defs[i])
                         ELSE partialMatches)

findMatches(defs, term) == findMatchesFrom(defs, 1, toLowerCase(term), <<>>)

\* the terms alone, the aliases left unscored
RECURSIVE suggestionTermsOnly(_)
suggestionTermsOnly(defs) ==
    IF defs = <<>> THEN <<>>
    ELSE (IF Head(defs) = Undefined THEN <<>> ELSE <<Head(defs).term>>)
         \o suggestionTermsOnly(Tail(defs))

\* the keys getBestSuggestion scores, in its scan order: forEach skips empty slots
RECURSIVE suggestionKeys(_)
suggestionKeys(defs) ==
    IF defs = <<>> THEN <<>>
    ELSE (IF Head(defs) = Undefined THEN <<>>
          ELSE <<Head(defs).term>> \o Head(defs).aliases)
         \o suggestionKeys(Tail(defs))

SUGGESTION_THRESHOLD == 3

\* the scan with ties going to the key met last
RECURSIVE bestMatchLastWins(_, _, _, _)
bestMatchLastWins(keys, k, term, bestMatch) ==
    IF k > Len(keys) THEN bestMatch
    ELSE LET dist == levenshteinDistance(term, toLowerCase(keys[k]))
         IN  bestMatchLastWins(keys, k + 1, term,
                 IF bestMatch.distance = -1 \/ dist <= bestMatch.distance
                 THEN [term |-> <<keys[k]>>, distance |-> dist]
                 ELSE bestMatch)

\* bestMatch after the scan of keys from k on; distance -1 stands for Infinity
RECURSIVE bestMatchFrom(_, _, _, _)
bestMatchFrom(keys, k, term, bestMatch) ==
    IF k > Len(keys) THEN bestMatch
    ELSE LET dist == levenshteinDistance(term, toLowerCase(keys[k]))
         IN  bestMatchFrom(keys, k + 1, term,
                 IF bestMatch.distance = -1 \/ dist < bestMatch.distance
                 THEN [term |-> <<keys[k]>>, distance |-> dist]
                 ELSE bestMatch)

\* <<>> for null, <<key>> for the suggested key
getBestSuggestion(defs, term) ==
    LET bestMatch == bestMatchFrom(suggestionKeys(defs), 1, term,
                                   [term |-> <<>>, distance |-> -1])
    IN  IF bestMatch.distance # -1 /\ bestMatch.distance <= SUGGESTION_THRESHOLD
        THEN bestMatch.term
        ELSE <<>>

\* Data.addToHistory
addToHistory(history, cmd) ==
    IF Len(history) = 0 \/ history[Len(history)] # cmd
    THEN Append(history, cmd)
    ELSE history

\* n empty slots
RECURSIVE emptySlots(_)
emptySlots(n) == IF n <= 0 THEN <<>> ELSE <<Undefined>> \o emptySlots(n - 1)

\* definitions.splice(index, 1)
deleteDefinition(defs, index) ==
    SubSeq(defs, 1, index) \o SubSeq(defs, index + 2, Len(defs))

\* definitions[index] = def: an index at or past the end lengthens the array and
\* leaves the slots in between empty
updateDefinition(defs, index, def) ==
    IF index < Len(defs)
    THEN SubSeq(defs, 1, index) \o <<def>> \o SubSeq(defs, index + 2, Len(defs))
    ELSE defs \o emptySlots(index - Len(defs)) \o <<def>>

\* definitions.push(def)
addDefinition(defs, def) == Append(defs, def)

-----------------------------------------------------------------------------
(* Characters: the classes of saveDefinition's patterns, the entities of     *)
(* sanitizeHTML and the order localeCompare gives the characters used here.  *)

Letters == DOMAIN LowerOf \cup {LowerOf[c] : c \in DOMAIN LowerOf}
Digits == {"0", "1", "2", "3", "4", "5", "6", "7", "8", "9"}

\* termRegex = /^[a-z0-9\s-'.]+$/i
termRegexTest(s) ==
    /\ s # <<>>
    /\ \A i \in 1..Len(s) : s[i] \in Letters \cup Digits \cup {SP, "-", "'", "."}

\* tagRegex = /^[a-z0-9-]+$/i
tagRegexTest(s) ==
    /\ s # <<>>
    /\ \A i \in 1..Len(s) : s[i] \in Letters \cup Digits \cup {"-"}

sanitizeChar(c) ==
    CASE c = "&" -> <<"&", "a", "m", "p", ";">>
      [] c = "<" -> <<"&", "l", "t", ";">>
      [] c = ">" -> <<"&", "g", "t", ";">>
      [] c = "\"" -> <<"&", "q", "u", "o", "t", ";">>
      [] c = "'" -> <<"&", "#", "0", "3", "9", ";">>
      [] OTHER -> <<c>>

RECURSIVE sanitizeHTML(_)
sanitizeHTML(s) ==
    IF s = <<>> THEN <<>> ELSE sanitizeChar(Head(s)) \o sanitizeHTML(Tail(s))

\* the collation order of the characters of lowercased terms: white space,
\* punctuation, digits, letters
CollationOrder ==
    <<" ", "-", ",", ".", "'", "0", "1", "2", "3", "4", "5", "6", "7", "8", "9",
      "a", "b", "c", "d", "e", "f", "g", "h", "i", "j", "k", "l", "m", "n", "o",
      "p", "q", "r", "s", "t", "u", "v", "w", "x", "y", "z">>

charRank(c) ==
    IF \E k \in 1..Len(CollationOrder) : CollationOrder[k] = c
    THEN CHOOSE k \in 1..Len(CollationOrder) : CollationOrder[k] = c
    ELSE 0

\* a.localeCompare(b) > 0
RECURSIVE comesAfter(_, _)
comesAfter(a, b) ==
    IF a = <<>> THEN FALSE
    ELSE IF b = <<>> THEN TRUE
    ELSE IF charRank(Head(a)) # charRank(Head(b))
    THEN charRank(Head(a)) > charRank(Head(b))
    ELSE comesAfter(Tail(a), Tail(b))

sortKey(def) == toLowerCase(def.term)

\* x put into the sorted array after every element that does not come after it
RECURSIVE insertSorted(_, _)
insertSorted(sorted, x) ==
    IF sorted = <<>> THEN <<x>>
    ELSE IF comesAfter(sortKey(Head(sorted)), sortKey(x)) THEN <<x>> \o sorted
    ELSE <<Head(sorted)>> \o insertSorted(Tail(sorted), x)

RECURSIVE sortFrom(_, _)
sortFrom(arr, sorted) ==
    IF arr = <<>> THEN sorted
    ELSE sortFrom(Tail(arr), insertSorted(sorted, Head(arr)))

\* arr.sort((a, b) => a.term.toLowerCase().localeCompare(b.term.toLowerCase())):
\* stable, and the empty slots go to the end
sortByTerm(arr) ==
    LET present == filterNot(arr, Undefined)
    IN  sortFrom(present, <<>>)
        \o emptySlots(Len(arr) - Len(present))

-----------------------------------------------------------------------------
(* COMMANDS MODULE: the handlers, as functions of the state they read.  Each *)
(* gives the collection it leaves, whether it persists it, and its result.   *)

Res(kind, defs, text) == [kind |-> kind, defs |-> defs, text |-> text]

NoResult == Res("none", <<>>, <<>>)

\* a TypeError left the handler before it built a result
Threw == Res("threw", <<>>, <<>>)

Out(defs, persist, res) == [defs |-> defs, persist |-> persist, result |-> res]

\* findIndex of findDefinitionAndIndex from array position i - 1 on: the
\* callback reads d.term of every slot up to the first hit, empty ones included
RECURSIVE findIndexFrom(_, _, _)
findIndexFrom(defs, i, termLower) ==
    IF i > Len(defs) THEN [threw |-> FALSE, index |-> Null]
    ELSE IF defs[i] = Undefined THEN [threw |-> TRUE, index |-> Null]
    ELSE IF isExact(defs[i], termLower) THEN [threw |-> FALSE, index |-> i - 1]
    ELSE findIndexFrom(defs, i + 1, termLower)

findDefinitionAndIndex(defs, searchTerm) ==
    findIndexFrom(defs, 1, toLowerCase(searchTerm))

deleteTerm(defs, args) ==
    LET termToDelete == join(filterNot(slice1(args), confirmFlag), <<SP>>)
        found == findDefinitionAndIndex(defs, termToDelete)
    IN  IF termToDelete = <<>>
        THEN Out(defs, FALSE, Res("usage", <<>>, <<kwDelete>>))
        ELSE IF found.threw THEN Out(defs, FALSE, Threw)
        ELSE IF found.index = Null
        THEN Out(defs, FALSE, Res("notFound", <<>>, <<termToDelete>>))
        ELSE IF ~arrayIncludes(args, confirmFlag)
        THEN Out(defs, FALSE, Res("confirmDelete", <<>>, <<termToDelete>>))
        ELSE Out(deleteDefinition(defs, found.index), TRUE,
                 Res("deleted", <<defs[found.index + 1]>>, <<>>))

hasTag(def, tag) ==
    def # Undefined /\ \E k \in 1..Len(def.tags) : toLowerCase(def.tags[k]) = tag

RECURSIVE filterByTag(_, _)
filterByTag(arr, tag) ==
    IF arr = <<>> THEN <<>>
    ELSE (IF hasTag(Head(arr), tag) THEN <<Head(arr)>> ELSE <<>>)
         \o filterByTag(Tail(arr), tag)

\* tag is <<>> when the line has no second word (undefined) or an empty one.
\* Without a tag termsToList is the store's own array, and sort sorts it in
\* place; with a tag it is the new array that filter built.
listTerms(defs, tag) ==
    LET sanitizedTag == sanitizeHTML(toLowerCase(tag))
        termsToList == IF sanitizedTag # <<>> THEN filterByTag(defs, sanitizedTag)
                       ELSE defs
        sorted == sortByTerm(termsToList)
    IN  IF Len(termsToList) = 0
        THEN Out(defs, FALSE, Res("noTerms", <<>>, <<sanitizedTag>>))
        ELSE Out(IF sanitizedTag # <<>> THEN defs ELSE sorted, FALSE,
                 Res("list", filterNot(sorted, Undefined), <<sanitizedTag>>))

\* defs.map(def => def.term)
RECURSIVE termsOf(_)
termsOf(defs) ==
    IF defs = <<>> THEN <<>> ELSE <<Head(defs).term>> \o termsOf(Tail(defs))

\* findDefinition with the single partial match reported like several
findDefinitionNoAutoResolve(defs, term) ==
    LET m == findMatches(defs, term)
        suggestion == getBestSuggestion(defs, toLowerCase(term))
    IN  IF term = <<>> THEN Res("usage", <<>>, <<kwFind>>)
        ELSE IF m.threw THEN Threw
        ELSE IF m.exactMatch # <<>> THEN Res("definition", m.exactMatch, <<>>)
        ELSE IF Len(m.partialMatches) >= 1
        THEN Res("ambiguous", <<>>, termsOf(m.partialMatches))
        ELSE Res("notFoundFind", <<>>, <<term>> \o suggestion)

findDefinition(defs, term) ==
    LET m == findMatches(defs, term)
        suggestion == getBestSuggestion(defs, toLowerCase(term))
    IN  IF term = <<>> THEN Res("usage", <<>>, <<kwFind>>)
        ELSE IF m.threw THEN Threw
        ELSE IF m.exactMatch # <<>> THEN Res("definition", m.exactMatch, <<>>)
        ELSE IF Len(m.partialMatches) = 1 THEN Res("definition", m.partialMatches, <<>>)
        ELSE IF Len(m.partialMatches) > 1
        THEN Res("ambiguous", <<>>, termsOf(m.partialMatches))
        ELSE Res("notFoundFind", <<>>, <<term>> \o suggestion)

\* the pieces of a comma-separated field, trimmed, the empty ones dropped
RECURSIVE trimmedPieces(_)
trimmedPieces(pieces) ==
    IF pieces = <<>> THEN <<>>
    ELSE (IF trim(Head(pieces)) # <<>> THEN <<trim(Head(pieces))>> ELSE <<>>)
         \o trimmedPieces(Tail(pieces))

\* UI.getEditorValues
getEditorValues(termText, aliasesText, tagsText, definitionText) ==
    [term |-> trim(termText),
     aliases |-> trimmedPieces(split(aliasesText, COMMA)),
     tags |-> trimmedPieces(split(tagsText, COMMA)),
     definition |-> trim(definitionText)]

Msg(kind, value) == [kind |-> kind, value |-> value]

NoMessage == Msg("", <<>>)

\* the aliases of the other entries alone, their terms left out
allOtherAliasesOnly(defs, editIndex) ==
    UNION {{toLowerCase(defs[i].aliases[k]) : k \in 1..Len(defs[i].aliases)} :
           i \in {j \in 1..Len(defs) :
                    /\ defs[j] # Undefined
                    /\ ~(editIndex # Null /\ j - 1 = editIndex)}}

\* allOtherTermsAndAliases: forEach skips the empty slots and the callback
\* returns at the index under edit
allOtherTermsAndAliases(defs, editIndex) ==
    UNION {{toLowerCase(defs[i].term)}
             \cup {toLowerCase(defs[i].aliases[k]) : k \in 1..Len(defs[i].aliases)} :
           i \in {j \in 1..Len(defs) :
                    /\ defs[j] # Undefined
                    /\ ~(editIndex # Null /\ j - 1 = editIndex)}}

\* the first alias found in a set as written, its letter case kept
firstAliasAsWritten(aliases, S) ==
    LET hits == {k \in 1..Len(aliases) : aliases[k] \in S}
    IN  IF hits = {} THEN <<>>
        ELSE <<aliases[CHOOSE k \in hits : \A h \in hits : k <= h]>>

\* aliases.find(...) and the for-of loop: the first alias of the array in a set
firstAliasIn(aliases, S) ==
    LET hits == {k \in 1..Len(aliases) : toLowerCase(aliases[k]) \in S}
    IN  IF hits = {} THEN <<>>
        ELSE <<aliases[CHOOSE k \in hits : \A h \in hits : k <= h]>>

reservedSet == {RESERVED_COMMANDS[k] : k \in 1..Len(RESERVED_COMMANDS)}

\* the checks with the identifier characters tested before the collisions
validateCharactersFirst(v, defs, editIndex) ==
    LET termLower == toLowerCase(v.term)
        aliasSet == {toLowerCase(v.aliases[k]) : k \in 1..Len(v.aliases)}
        others == allOtherTermsAndAliases(defs, editIndex)
    IN  IF v.term = <<>> \/ v.definition = <<>> THEN Msg("required", <<>>)
        ELSE IF termLower \in reservedSet THEN Msg("reservedTerm", v.term)
        ELSE IF includes(v.term, <<COMMA>>) THEN Msg("commaInTerm", <<>>)
        ELSE IF firstAliasIn(v.aliases, reservedSet) # <<>>
        THEN Msg("reservedAlias", firstAliasIn(v.aliases, reservedSet)[1])
        ELSE IF Cardinality(aliasSet) # Len(v.aliases) THEN Msg("duplicateAlias", <<>>)
        ELSE IF termLower \in aliasSet THEN Msg("aliasEqualsTerm", <<>>)
        ELSE IF ~termRegexTest(v.term) THEN Msg("invalidTerm", <<>>)
        ELSE IF \E k \in 1..Len(v.aliases) : ~termRegexTest(v.aliases[k])
        THEN Msg("invalidAliases", <<>>)
        ELSE IF termLower \in others THEN Msg("termExists", v.term)
        ELSE IF firstAliasIn(v.aliases, others) # <<>>
        THEN Msg("aliasExists", firstAliasIn(v.aliases, others)[1])
        ELSE IF \E k \in 1..Len(v.tags) : ~tagRegexTest(v.tags[k])
        THEN Msg("invalidTag", <<>>)
        ELSE NoMessage

\* The checks of saveDefinition, in the order of the code: the message of the
\* first one that fails, or NoMessage when the candidate passes them all.
validate(v, defs, editIndex) ==
    LET termLower == toLowerCase(v.term)
        aliasSet == {toLowerCase(v.aliases[k]) : k \in 1..Len(v.aliases)}
        others == allOtherTermsAndAliases(defs, editIndex)
    IN  IF v.term = <<>> \/ v.definition = <<>> THEN Msg("required", <<>>)
        ELSE IF termLower \in reservedSet THEN Msg("reservedTerm", v.term)
        ELSE IF includes(v.term, <<COMMA>>) THEN Msg("commaInTerm", <<>>)
        ELSE IF firstAliasIn(v.aliases, reservedSet) # <<>>
        THEN Msg("reservedAlias", firstAliasIn(v.aliases, reservedSet)[1])
        ELSE IF Cardinality(aliasSet) # Len(v.aliases) THEN Msg("duplicateAlias", <<>>)
        ELSE IF termLower \in aliasSet THEN Msg("aliasEqualsTerm", <<>>)
        ELSE IF termLower \in others THEN Msg("termExists", v.term)
        ELSE IF firstAliasIn(v.aliases, others) # <<>>
        THEN Msg("aliasExists", firstAliasIn(v.aliases, others)[1])
        ELSE IF ~termRegexTest(v.term) THEN Msg("invalidTerm", <<>>)
        ELSE IF \E k \in 1..Len(v.aliases) : ~termRegexTest(v.aliases[k])
        THEN Msg("invalidAliases", <<>>)
        ELSE IF \E k \in 1..Len(v.tags) : ~tagRegexTest(v.tags[k])
        THEN Msg("invalidTag", <<>>)
        ELSE NoMessage

\* the write of saveDefinition once the candidate has passed the checks
saveWrite(defs, editIndex, v) ==
    IF editIndex # Null THEN updateDefinition(defs, editIndex, v)
    ELSE addDefinition(defs, v)

\* importConfirm as it would be had the buffer not been reset after the import
importConfirmKeepsBuffer(defs, pending) ==
    IF pending # <<>>
    THEN [defs |-> pending[1], persist |-> TRUE, pending |-> pending,
          result |-> Res("imported", <<>>, <<>>)]
    ELSE [defs |-> defs, persist |-> FALSE, pending |-> pending,
          result |-> Res("noFileLoaded", <<>>, <<>>)]

\* importConfirm as it would be had a missing buffer been read as an empty array
importConfirmNullAsEmpty(defs, pending) ==
    [defs |-> IF pending # <<>> THEN pending[1] ELSE <<>>, persist |-> TRUE,
     pending |-> <<>>, result |-> Res("imported", <<>>, <<>>)]

\* importDefinitions with the flag: any array, the empty one included, is truthy
importConfirm(defs, pending) ==
    IF pending # <<>>
    THEN [defs |-> pending[1], persist |-> TRUE, pending |-> <<>>,
          result |-> Res("imported", <<>>, <<>>)]
    ELSE [defs |-> defs, persist |-> FALSE, pending |-> pending,
          result |-> Res("noFileLoaded", <<>>, <<>>)]

\* What reader.onload makes of a file.  A file is [kind, data]: text that
\* JSON.parse rejects ("malformed"), JSON that is no array ("notArray"), or an
\* array ("array") with its elements; an element's missing term or definition
\* key reads as <<>>, which is as falsy as the empty string.
parseFails(file) ==
    \/ file.kind # "array"
    \/ /\ Len(file.data) > 0
       /\ (file.data[1].term = <<>> \/ file.data[1].definition = <<>>)

\* reader.onload as it would be did a rejected file leave the buffer as it was
onloadRejectKeepsBuffer(file) ==
    IF parseFails(file)
    THEN [pending |-> pendingImportData, result |-> Res("readError", <<>>, <<>>)]
    ELSE [pending |-> <<file.data>>, result |-> Res("loaded", file.data, <<>>)]

onload(file) ==
    IF parseFails(file)
    THEN [pending |-> <<>>, result |-> Res("readError", <<>>, <<>>)]
    ELSE [pending |-> <<file.data>>, result |-> Res("loaded", file.data, <<>>)]

\* the values openEditor puts in the four fields
editorFields(term, aliasesText, tagsText, definition) ==
    [term |-> term, aliases |-> aliasesText, tags |-> tagsText,
     definition |-> definition]

openEditor(defToEdit) ==
    IF defToEdit # <<>>
    THEN editorFields(defToEdit[1].term, join(defToEdit[1].aliases, <<COMMA, SP>>),
                      join(defToEdit[1].tags, <<COMMA, SP>>), defToEdit[1].definition)
    ELSE editorFields(<<>>, <<>>, <<>>, <<>>)

\* What process(command) does, as a record: the collection it leaves and whether
\* it persists it, the result it renders, the edit target and the import buffer
\* it leaves, the defToEdit of the editor it opens (open = <<defToEdit>>, <<>> when
\* it opens none; defToEdit is <<>> for null and <<def>> for def), whether it
\* starts a file read and whether it clears the history.
Effect(defs, persist, res, editIndex, open, pending, startRead, clearHistory) ==
    [defs |-> defs, persist |-> persist, result |-> res, editIndex |-> editIndex,
     open |-> open, pending |-> pending, startRead |-> startRead,
     clearHistory |-> clearHistory]

\* an effect on the collection and the result alone
Plain(out) ==
    Effect(out.defs, out.persist, out.result, currentEditIndex, <<>>,
           pendingImportData, FALSE, FALSE)

processEdit(searchTerm) ==
    LET found == findDefinitionAndIndex(definitions, searchTerm)
    IN  IF searchTerm = <<>>
        THEN Plain(Out(definitions, FALSE, Res("usage", <<>>, <<kwEdit>>)))
        ELSE IF found.threw THEN Plain(Out(definitions, FALSE, Threw))
        ELSE IF found.index # Null
        THEN Effect(definitions, FALSE, NoResult, found.index,
                    <<<<definitions[found.index + 1]>>>>,
                    pendingImportData, FALSE, FALSE)
        ELSE Plain(Out(definitions, FALSE, Res("notFound", <<>>, <<searchTerm>>)))

processImport(commandArgs) ==
    LET c == importConfirm(definitions, pendingImportData)
    IN  IF arrayIncludes(commandArgs, confirmFlag)
        THEN Effect(c.defs, c.persist, c.result, currentEditIndex, <<>>, c.pending,
                    FALSE, FALSE)
        ELSE Effect(definitions, FALSE, Res("openingDialog", <<>>, <<>>),
                    currentEditIndex, <<>>, pendingImportData, TRUE, FALSE)

process(command) ==
    LET commandArgs == split(trim(command), SP)
        baseCommand == toLowerCase(commandArgs[1])
        searchTerm == join(slice1(commandArgs), <<SP>>)
    IN  CASE baseCommand = kwHelp ->
                Plain(Out(definitions, FALSE, Res("help", <<>>, <<>>)))
          [] baseCommand = kwClear ->
                Effect(definitions, FALSE, Res("welcome", <<>>, <<>>),
                       currentEditIndex, <<>>, pendingImportData, FALSE, TRUE)
          [] baseCommand \in {kwLs, kwList} ->
                Plain(listTerms(definitions,
                                IF Len(commandArgs) >= 2 THEN commandArgs[2] ELSE <<>>))
          [] baseCommand = kwAdd ->
                Effect(definitions, FALSE, NoResult, Null, <<<<>>>>,
                       pendingImportData, FALSE, FALSE)
          [] baseCommand = kwEdit -> processEdit(searchTerm)
          [] baseCommand \in {kwRm, kwDelete} ->
                Plain(deleteTerm(definitions, commandArgs))
          [] baseCommand = kwFind ->
                Plain(Out(definitions, FALSE, findDefinition(definitions, searchTerm)))
          [] baseCommand = kwExport ->
                Plain(Out(definitions, FALSE, Res("exporting", stringify(definitions), <<>>)))
          [] baseCommand = kwImport -> processImport(commandArgs)
          [] OTHER ->
                Plain(Out(definitions, FALSE, findDefinition(definitions, command)))

-----------------------------------------------------------------------------
(* The inputs the model draws from. *)

words(a, b) == a \o <<SP>> \o b

termA == <<"a">>
termB == <<"B">>
termC == <<"c">>
termAFlag == words(termA, confirmFlag)
tagT == <<"t">>
body1 == <<"x">>
body2 == <<"y">>

entryA == Definition(termA, <<>>, <<>>, body1)
entryB == Definition(termB, <<>>, <<tagT>>, body1)
entryC == Definition(termC, <<termA>>, <<>>, body1)

termVector == <<"v", "e", "c", "t", "o", "r">>
aliasVec == <<"v", "e", "c">>
queryVec3 == <<"v", "e", "c", "3">>
entryVector == Definition(termVector, <<aliasVec>>, <<>>, body1)

\* what localStorage or the page's default data holds at start-up
InitialCollections == {<<>>, <<entryB, entryA>>}

\* what the user may have typed in the editor's fields
EditorPresets ==
    {editorFields(termAFlag, <<>>, <<>>, body1),
     editorFields(termC, <<>>, <<>>, body1)}

kwHelpCapital == <<"H">> \o Tail(kwHelp)
kwFindCapital == <<"F">> \o Tail(kwFind)
commaSp == <<COMMA, SP>>

\* candidates that fail one check of saveDefinition or several, and one that
\* passes them all: term, aliases text, tags text, definition
ValidatorPresets ==
    {editorFields(<<>>, <<>>, <<>>, body1),
     editorFields(kwHelpCapital, <<>>, <<>>, <<>>),
     editorFields(kwHelpCapital, <<>>, <<>>, body1),
     editorFields(<<"d", COMMA, "e">>, kwRm, <<>>, body1),
     editorFields(termC, kwFindCapital, <<>>, body1),
     editorFields(termC, kwFindCapital \o commaSp \o kwFind, <<>>, body1),
     editorFields(termC, <<"d">> \o commaSp \o <<"D">>, <<>>, body1),
     editorFields(termC, <<"c">> \o commaSp \o <<"C">>, <<>>, body1),
     editorFields(termC, <<"C">>, <<>>, body1),
     editorFields(termA, <<"A">>, <<>>, body1),
     editorFields(termA, <<>>, <<"t", "!">>, body1),
     editorFields(termB, termA, <<>>, body1),
     editorFields(<<"d", "!">>, termA, <<>>, body1),
     editorFields(<<"d", "!">>, <<"e", "!">>, <<"t", "!">>, body1),
     editorFields(<<"d">>, <<"e", "!">>, <<"t", "!">>, body1),
     editorFields(<<"d">>, <<>>, <<"t", "!">>, body1),
     editorFields(<<"d">>, <<"e">>, tagT, body2)}

\* the lines that open the editor: an add session, an edit session
ValidatorCommands == {kwAdd, words(kwEdit, <<"b">>)}

\* the files the user may pick in the import dialog
Files ==
    {[kind |-> "array", data |-> <<entryC, entryA>>],
     [kind |-> "array", data |-> <<>>],
     [kind |-> "array", data |-> <<Definition(<<>>, <<>>, <<>>, body1)>>],
     [kind |-> "notArray", data |-> <<>>],
     [kind |-> "malformed", data |-> <<>>]}

\* the dialog closed without a file
NoFile == [kind |-> "none", data |-> <<>>]

\* the lines handed to the dispatcher while the store and the editor are checked
StoreCommands ==
    {kwList, words(kwLs, tagT), kwAdd,
     words(kwEdit, <<"b">>), words(kwEdit, termAFlag),
     words(kwDelete, termAFlag), words(kwDelete, <<"b">>),
     words(words(kwRm, <<"b">>), confirmFlag), words(kwFind, <<"b">>)}

\* the lines handed to the dispatcher while the import flow is checked
ImportCommands ==
    {kwImport, words(kwImport, confirmFlag), words(kwEdit, termA), kwExport}

TerminalCommands == {kwHelp, kwClear, kwList, <<"b">>}

\* the lines typed at the terminal while file reads are in flight
CallbackCommands == {kwImport, words(kwEdit, <<"b">>)}

-----------------------------------------------------------------------------
(* The state machine. *)

Op(op, arg) == [op |-> op, arg |-> arg]

\* three strings whose distances have not been computed yet
NotMeasured(a, b, c) ==
    [a |-> a, b |-> b, c |-> c, done |-> FALSE,
     ab |-> 0, ba |-> 0, bc |-> 0, ac |-> 0]

Init ==
    /\ definitions \in InitialCollections
    /\ persisted = definitions
    /\ commandHistory = <<>>
    /\ historyIndex = -1
    /\ commandInput = <<>>
    /\ currentEditIndex = Null
    /\ sessionEntry = <<>>
    /\ pendingImportData = <<>>
    /\ reads = <<>>
    /\ editorOpen = FALSE
    /\ termInput = <<>>
    /\ aliasesInput = <<>>
    /\ tagsInput = <<>>
    /\ definitionInput = <<>>
    /\ editorMessage = NoMessage
    /\ result = Res("welcome", <<>>, <<>>)
    /\ measured = NotMeasured(<<>>, <<>>, <<>>)
    /\ lastOp = Op("initialize", <<>>)

\* The state process(command) leaves, but for the history: e is process(command)
\* and file is what the import dialog, if one opens, ends with.
Apply(e, file) ==
    /\ definitions' = e.defs
    /\ persisted' = IF e.persist THEN stringify(e.defs) ELSE persisted
    /\ currentEditIndex' = e.editIndex
    /\ sessionEntry' = IF e.open # <<>> THEN e.open[1] ELSE sessionEntry
    /\ pendingImportData' = e.pending
    /\ reads' = IF e.startRead /\ file # NoFile
                 THEN Append(reads, [kind |-> file.kind, data |-> file.data,
                                     overtaken |-> FALSE])
                 ELSE reads
    /\ result' = e.result
    /\ UNCHANGED measured
    /\ IF e.open # <<>>
       THEN /\ editorOpen' = TRUE
            /\ editorMessage' = NoMessage
            /\ termInput' = openEditor(e.open[1]).term
            /\ aliasesInput' = openEditor(e.open[1]).aliases
            /\ tagsInput' = openEditor(e.open[1]).tags
            /\ definitionInput' = openEditor(e.open[1]).definition
       ELSE UNCHANGED <<editorOpen, editorMessage, termInput, aliasesInput,
                        tagsInput, definitionInput>>

\* the files an invocation may end with: none but NoFile unless it opens a dialog
FilesFor(e) == IF e.startRead THEN Files \cup {NoFile} ELSE {NoFile}

\* Commands.process(command), the dispatcher's entry point
Process(command) ==
    LET e == process(command)
    IN  /\ e.startRead => Len(reads) < MaxImports
        /\ e.editIndex = Null /\ e.open # <<>> => Len(definitions) < MaxDefs
        /\ \E file \in FilesFor(e) : Apply(e, file)
        /\ commandHistory' = IF e.clearHistory THEN <<>> ELSE commandHistory
        /\ UNCHANGED <<historyIndex, commandInput>>
        /\ lastOp' = Op("process", command)

\* saveDefinition as it would be did a rejection close the editor
SaveDefinitionClosesOnReject ==
    LET v == getEditorValues(termInput, aliasesInput, tagsInput, definitionInput)
        msg == validate(v, definitions, currentEditIndex)
        written == saveWrite(definitions, currentEditIndex,
                             Definition(v.term, v.aliases, v.tags, v.definition))
    IN  /\ editorOpen
        /\ IF msg # NoMessage
           THEN /\ editorMessage' = msg
                /\ result' = NoResult
                /\ editorOpen' = FALSE
                /\ UNCHANGED <<definitions, persisted>>
           ELSE /\ definitions' = written
                /\ persisted' = stringify(written)
                /\ editorOpen' = FALSE
                /\ result' = Res(IF currentEditIndex # Null THEN "updated" ELSE "saved",
                                 <<>>, <<v.term>>)
                /\ UNCHANGED editorMessage
        /\ lastOp' = Op("saveDefinition", termInput)
        /\ UNCHANGED <<measured, commandHistory, historyIndex, commandInput, currentEditIndex,
                       sessionEntry,
                       pendingImportData, reads, termInput, aliasesInput, tagsInput,
                       definitionInput>>

\* Commands.saveDefinition, the save button of the open editor
SaveDefinition ==
    LET v == getEditorValues(termInput, aliasesInput, tagsInput, definitionInput)
        msg == validate(v, definitions, currentEditIndex)
        written == saveWrite(definitions, currentEditIndex,
                             Definition(v.term, v.aliases, v.tags, v.definition))
    IN  /\ editorOpen
        /\ IF msg # NoMessage
           THEN /\ editorMessage' = msg
                /\ result' = NoResult
                /\ UNCHANGED <<definitions, persisted, editorOpen>>
           ELSE /\ definitions' = written
                /\ persisted' = stringify(written)
                /\ editorOpen' = FALSE
                /\ result' = Res(IF currentEditIndex # Null THEN "updated" ELSE "saved",
                                 <<>>, <<v.term>>)
                /\ UNCHANGED editorMessage
        /\ lastOp' = Op("saveDefinition", termInput)
        /\ UNCHANGED <<measured, commandHistory, historyIndex, commandInput, currentEditIndex,
                       sessionEntry,
                       pendingImportData, reads, termInput, aliasesInput, tagsInput,
                       definitionInput>>

\* UI.closeEditor, the cancel button
CancelEditor ==
    /\ editorOpen
    /\ editorOpen' = FALSE
    /\ lastOp' = Op("closeEditor", <<>>)
    /\ UNCHANGED <<measured, definitions, persisted, commandHistory, historyIndex,
                   commandInput, currentEditIndex, sessionEntry, pendingImportData, reads,
                   termInput, aliasesInput, tagsInput, definitionInput,
                   editorMessage, result>>

\* the user replaces what the editor's fields hold
TypeInEditor(fields) ==
    /\ editorOpen
    /\ termInput' = fields.term
    /\ aliasesInput' = fields.aliases
    /\ tagsInput' = fields.tags
    /\ definitionInput' = fields.definition
    /\ lastOp' = Op("typeInEditor", <<>>)
    /\ UNCHANGED <<measured, definitions, persisted, commandHistory, historyIndex,
                   commandInput, currentEditIndex, sessionEntry, pendingImportData, reads,
                   editorOpen, editorMessage, result>>

\* the user rewrites the definition field alone and leaves the term as loaded
TypeDefinitionBody ==
    /\ editorOpen
    /\ termInput # <<>>
    /\ definitionInput' = body2
    /\ lastOp' = Op("typeDefinitionBody", <<>>)
    /\ UNCHANGED <<measured, definitions, persisted, commandHistory, historyIndex,
                   commandInput, currentEditIndex, sessionEntry, pendingImportData, reads,
                   editorOpen, termInput, aliasesInput, tagsInput, editorMessage,
                   result>>

\* history: the reads started before the one whose file, data, has now loaded.
\* When that read was itself overtaken, the earlier ones were marked, against
\* the later content, at the time that content loaded, and are left as they are.
RECURSIVE markOvertaken(_, _)
markOvertaken(rs, data) ==
    IF rs = <<>> THEN <<>>
    ELSE <<[Head(rs) EXCEPT !.overtaken = (Head(rs).data # data)]>>
         \o markOvertaken(Tail(rs), data)

\* reader.onload as it would be did a file that loads replace the collection at once
FileLoadedAppliesAtOnce(k) ==
    LET o == onload(reads[k])
    IN  /\ k \in 1..Len(reads)
        /\ pendingImportData' = o.pending
        /\ result' = o.result
        /\ reads' = (IF o.pending # <<>> /\ ~reads[k].overtaken
                      THEN markOvertaken(SubSeq(reads, 1, k - 1), reads[k].data)
                      ELSE SubSeq(reads, 1, k - 1))
                     \o SubSeq(reads, k + 1, Len(reads))
        /\ lastOp' = Op("onload", <<reads[k].kind>>)
        /\ definitions' = IF o.pending # <<>> THEN o.pending[1] ELSE definitions
        /\ UNCHANGED <<measured, persisted, commandHistory, historyIndex,
                       commandInput, currentEditIndex, sessionEntry, editorOpen, termInput,
                       aliasesInput, tagsInput, definitionInput, editorMessage>>

\* reader.onload of the k-th file read in flight
FileLoaded(k) ==
    LET o == onload(reads[k])
    IN  /\ k \in 1..Len(reads)
        /\ pendingImportData' = o.pending
        /\ result' = o.result
        /\ reads' = (IF o.pending # <<>> /\ ~reads[k].overtaken
                      THEN markOvertaken(SubSeq(reads, 1, k - 1), reads[k].data)
                      ELSE SubSeq(reads, 1, k - 1))
                     \o SubSeq(reads, k + 1, Len(reads))
        /\ lastOp' = Op("onload", <<reads[k].kind>>)
        /\ UNCHANGED <<measured, definitions, persisted, commandHistory, historyIndex,
                       commandInput, currentEditIndex, sessionEntry, editorOpen, termInput,
                       aliasesInput, tagsInput, definitionInput, editorMessage>>

\* the user replaces what the command line holds
TypeCommand(text) ==
    /\ commandInput' = text
    /\ lastOp' = Op("typeCommand", <<>>)
    /\ UNCHANGED <<measured, definitions, persisted, commandHistory, historyIndex,
                   currentEditIndex, sessionEntry, pendingImportData, reads, editorOpen,
                   termInput, aliasesInput, tagsInput, definitionInput,
                   editorMessage, result>>

\* handleTerminalInput, e.key === "Enter": a TypeError in process leaves the
\* handler before it empties the command line
KeyEnter ==
    LET command == trim(commandInput)
        history == addToHistory(commandHistory, command)
        e == process(command)
    IN  /\ command # <<>>
        /\ Len(commandHistory) < MaxHistory
        /\ e.startRead => Len(reads) < MaxImports
        /\ e.editIndex = Null /\ e.open # <<>> => Len(definitions) < MaxDefs
        /\ \E file \in FilesFor(e) : Apply(e, file)
        /\ commandHistory' = IF e.clearHistory THEN <<>> ELSE history
        /\ historyIndex' = Len(history)
        /\ commandInput' = IF e.result = Threw THEN commandInput ELSE <<>>
        /\ lastOp' = Op("Enter", command)

\* handleTerminalInput, e.key === "ArrowUp": history[historyIndex] of a position
\* the array does not have is undefined, which the input shows as text
ArrowUp ==
    /\ IF historyIndex > 0
       THEN /\ historyIndex' = historyIndex - 1
            /\ commandInput' = IF historyIndex - 1 < Len(commandHistory)
                               THEN commandHistory[historyIndex]
                               ELSE undefinedText
       ELSE UNCHANGED <<historyIndex, commandInput>>
    /\ lastOp' = Op("ArrowUp", <<>>)
    /\ UNCHANGED <<measured, definitions, persisted, commandHistory, currentEditIndex, sessionEntry,
                   pendingImportData, reads, editorOpen, termInput, aliasesInput,
                   tagsInput, definitionInput, editorMessage, result>>

\* handleTerminalInput, e.key === "ArrowDown"
ArrowDown ==
    /\ IF historyIndex < Len(commandHistory) - 1
       THEN /\ historyIndex' = historyIndex + 1
            /\ commandInput' = commandHistory[historyIndex + 2]
       ELSE /\ historyIndex' = Len(commandHistory)
            /\ commandInput' = <<>>
    /\ lastOp' = Op("ArrowDown", <<>>)
    /\ UNCHANGED <<measured, definitions, persisted, commandHistory, currentEditIndex, sessionEntry,
                   pendingImportData, reads, editorOpen, termInput, aliasesInput,
                   tagsInput, definitionInput, editorMessage, result>>

\* The store and the editor: lines handed to process, and the editor's buttons
\* and fields.
Next ==
    \/ \E command \in StoreCommands : Process(command)
    \/ SaveDefinition
    \/ CancelEditor
    \/ \E fields \in EditorPresets : TypeInEditor(fields)

Spec == Init /\ [][Next]_vars

\* The import flow: import commands, the completion of file reads, and an edit
\* session beside them.
NextImport ==
    \/ \E command \in ImportCommands : Process(command)
    \/ \E k \in 1..MaxImports : FileLoaded(k)
    \/ SaveDefinition
    \/ TypeDefinitionBody

SpecImport == Init /\ [][NextImport]_vars

\* File reads that complete between the commands typed at the terminal.
NextCallback ==
    \/ \E text \in CallbackCommands : TypeCommand(text)
    \/ KeyEnter
    \/ ArrowUp
    \/ \E k \in 1..MaxImports : FileLoaded(k)

SpecCallback == Init /\ [][NextCallback]_vars

\* The terminal: the command line, its Enter key and the recall keys.
NextTerminal ==
    \/ \E text \in TerminalCommands : TypeCommand(text)
    \/ KeyEnter
    \/ ArrowUp
    \/ ArrowDown

SpecTerminal == Init /\ [][NextTerminal]_vars

\* The editor: sessions opened by add and edit, candidates typed and saved.
NextValidator ==
    \/ \E command \in ValidatorCommands : Process(command)
    \/ \E fields \in ValidatorPresets : TypeInEditor(fields)
    \/ SaveDefinition

SpecValidator == Init /\ [][NextValidator]_vars

-----------------------------------------------------------------------------
(* The match engine on its own: find run on every collection of up to        *)
(* MaxFindDefs entries of a pool in which names are shared between entries,  *)
(* in either letter case, and contained in one another.                      *)

FindPool ==
    {Definition(<<"a">>, <<<<"x", "b">>>>, <<>>, body1),
     Definition(<<"A", "b">>, <<<<"c">>>>, <<>>, body1),
     Definition(<<"b", "a">>, <<<<"A">>>>, <<>>, body2),
     Definition(<<"c", "a", "b">>, <<<<"b", "b">>, <<"d", "a">>>>, <<>>, body1),
     entryVector}

\* the collections of up to MaxFindDefs of these entries, no entry twice
FindCollections ==
    {c \in UNION {[1..n -> FindPool] : n \in 0..MaxFindDefs} :
        \A i \in DOMAIN c : \A j \in DOMAIN c : i # j => c[i] # c[j]}

FindQueries ==
    {<<"a">>, <<"A">>, <<"b">>, <<"a", "B">>, <<"c">>, <<"b", "b">>, <<"d">>,
     <<"z", "z">>, <<"a", "z">>, <<"z", "z", "z", "z">>, queryVec3}

InitFind ==
    /\ definitions \in FindCollections
    /\ persisted = definitions
    /\ commandHistory = <<>>
    /\ historyIndex = -1
    /\ commandInput = <<>>
    /\ currentEditIndex = Null
    /\ sessionEntry = <<>>
    /\ pendingImportData = <<>>
    /\ reads = <<>>
    /\ editorOpen = FALSE
    /\ termInput = <<>>
    /\ aliasesInput = <<>>
    /\ tagsInput = <<>>
    /\ definitionInput = <<>>
    /\ editorMessage = NoMessage
    /\ result = Res("welcome", <<>>, <<>>)
    /\ measured = NotMeasured(<<>>, <<>>, <<>>)
    /\ lastOp = Op("initialize", <<>>)

\* the queries typed two spaces after the keyword
WideGapQueries == {<<"a">>, <<"a", "B">>}

\* keyword and argument with two spaces between them
wideGap(a, b) == a \o <<SP, SP>> \o b

\* find with its keyword, and a bare line, which is looked up whole
NextFind ==
    \/ \E q \in FindQueries : Process(words(kwFind, q))
    \/ \E q \in FindQueries : Process(q)
    \/ \E q \in WideGapQueries : Process(wideGap(kwFind, q))

SpecFind == InitFind /\ [][NextFind]_vars

-----------------------------------------------------------------------------
(* levenshteinDistance on its own: the strings of up to MaxWord letters. *)

Words == UNION {[1..n -> {"a", "b"}] : n \in 0..MaxWord}

InitDistance ==
    /\ definitions = <<>>
    /\ persisted = definitions
    /\ commandHistory = <<>>
    /\ historyIndex = -1
    /\ commandInput = <<>>
    /\ currentEditIndex = Null
    /\ sessionEntry = <<>>
    /\ pendingImportData = <<>>
    /\ reads = <<>>
    /\ editorOpen = FALSE
    /\ termInput = <<>>
    /\ aliasesInput = <<>>
    /\ tagsInput = <<>>
    /\ definitionInput = <<>>
    /\ editorMessage = NoMessage
    /\ result = Res("welcome", <<>>, <<>>)
    /\ measured \in {NotMeasured(a, b, c) : a \in Words, b \in Words, c \in Words}
    /\ lastOp = Op("initialize", <<>>)

\* Utils.levenshteinDistance applied to the pairs of the three strings
Measure ==
    /\ ~measured.done
    /\ measured' = [measured EXCEPT
                       !.done = TRUE,
                       !.ab = levenshteinDistance(measured.a, measured.b),
                       !.ba = levenshteinDistance(measured.b, measured.a),
                       !.bc = levenshteinDistance(measured.b, measured.c),
                       !.ac = levenshteinDistance(measured.a, measured.c)]
    /\ lastOp' = Op("levenshteinDistance", <<>>)
    /\ UNCHANGED <<definitions, persisted, commandHistory, historyIndex,
                   commandInput, currentEditIndex, sessionEntry, pendingImportData,
                   reads, editorOpen, termInput, aliasesInput, tagsInput,
                   definitionInput, editorMessage, result>>

NextDistance == Measure

SpecDistance == InitDistance /\ [][NextDistance]_vars

-----------------------------------------------------------------------------
(* What the claims speak of, stated on the collection itself. *)

namesOf(def) == {def.term} \cup {def.aliases[k] : k \in 1..Len(def.aliases)}

sameIgnoringCase(x, y) == toLowerCase(x) = toLowerCase(y)

\* sub occurs in s, letter case ignored
containsIgnoringCase(s, sub) ==
    \E i \in 0..Len(s) : \E j \in i..Len(s) :
        toLowerCase(SubSeq(s, i + 1, j)) = toLowerCase(sub)

\* the positions (1-based) of the entries a query hits exactly, and partially
ExactHits(q) ==
    {i \in 1..Len(definitions) :
        /\ definitions[i] # Undefined
        /\ \E n \in namesOf(definitions[i]) : sameIgnoringCase(n, q)}

PartialHits(q) ==
    {i \in 1..Len(definitions) :
        /\ definitions[i] # Undefined
        /\ \E n \in namesOf(definitions[i]) : containsIgnoringCase(n, q)}

Least(S) == CHOOSE i \in S : \A j \in S : i <= j

\* the k-th element of a set of numbers, in increasing order
Kth(S, k) == CHOOSE i \in S : Cardinality({j \in S : j < i}) = k - 1

\* the last event was find on q, with the keyword or as a bare line
Asked(q) == lastOp = Op("process", words(kwFind, q)) \/ lastOp = Op("process", q)

-----------------------------------------------------------------------------
(* C9: for every non-empty query that equals, letter case ignored, a term or *)
(* an alias of some entry, find returns the first such entry in collection   *)
(* order and an empty set of partial matches, wherever that entry sits and   *)
(* whichever other entries, before or after it, contain the query.           *)
C9_ExactMatchWins ==
    \A q \in FindQueries :
        (Asked(q) /\ q # <<>> /\ ExactHits(q) # {}) =>
            /\ result = Res("definition", <<definitions[Least(ExactHits(q))]>>, <<>>)
            /\ findMatches(definitions, q) =
                   [threw |-> FALSE,
                    exactMatch |-> <<definitions[Least(ExactHits(q))]>>,
                    partialMatches |-> <<>>]

\* an exact hit found after an entry that only contains the query and before
\* another one that contains it
C9_Witness ==
    \E q \in FindQueries :
        /\ Asked(q)
        /\ ExactHits(q) # {}
        /\ \E i \in PartialHits(q) : i < Least(ExactHits(q))
        /\ \E i \in PartialHits(q) \ ExactHits(q) : i > Least(ExactHits(q))
        /\ result.kind = "definition"

(* C10: for every query with no exact hit and at least two entries whose     *)
(* term or some alias contains it, letter case ignored, find reports         *)
(* ambiguity and lists the term of every such entry, once each, in           *)
(* collection order, and selects none of them.                               *)
C10_AmbiguityListsEveryHit ==
    \A q \in FindQueries :
        (Asked(q) /\ ExactHits(q) = {} /\ Cardinality(PartialHits(q)) >= 2) =>
            /\ result.kind = "ambiguous"
            /\ result.defs = <<>>
            /\ Len(result.text) = Cardinality(PartialHits(q))
            /\ \A k \in 1..Len(result.text) :
                   result.text[k] = definitions[Kth(PartialHits(q), k)].term

\* an ambiguity in which one entry is hit through an alias alone
C10_Witness ==
    \E q \in FindQueries :
        /\ Asked(q)
        /\ ExactHits(q) = {}
        /\ Cardinality(PartialHits(q)) >= 2
        /\ \E i \in PartialHits(q) : ~containsIgnoringCase(definitions[i].term, q)
        /\ result.kind = "ambiguous"

(* C11: for every query with no exact hit and exactly one entry whose term   *)
(* or some alias contains it, letter case ignored, find resolves to that     *)
(* entry and returns its content.                                            *)
C11_SinglePartialResolves ==
    \A q \in FindQueries :
        (Asked(q) /\ ExactHits(q) = {} /\ Cardinality(PartialHits(q)) = 1) =>
            result = Res("definition", <<definitions[Least(PartialHits(q))]>>, <<>>)

\* the single hit is through an alias alone and other entries surround it
C11_Witness ==
    \E q \in FindQueries :
        /\ Asked(q)
        /\ ExactHits(q) = {}
        /\ Cardinality(PartialHits(q)) = 1
        /\ Len(definitions) = 3
        /\ PartialHits(q) = {2}
        /\ ~containsIgnoringCase(definitions[2].term, q)
        /\ result.kind = "definition"

\* the keys of the collection, each named by the position of its entry and by
\* 0 for the term or k for the k-th alias
Candidates ==
    {c \in (1..Len(definitions)) \X (0..2) :
        /\ definitions[c[1]] # Undefined
        /\ c[2] <= Len(definitions[c[1]].aliases)}

keyAt(c) ==
    IF c[2] = 0 THEN definitions[c[1]].term ELSE definitions[c[1]].aliases[c[2]]

\* c is met no later than d: entries in collection order, a term before its aliases
metFirst(c, d) == c[1] < d[1] \/ (c[1] = d[1] /\ c[2] <= d[2])

\* the distance of every key to the lowercased query: the key lowercased too,
\* and the key as stored
loweredScore(q) ==
    [c \in Candidates |-> levenshteinDistance(toLowerCase(q), toLowerCase(keyAt(c)))]

storedScore(q) ==
    [c \in Candidates |-> levenshteinDistance(toLowerCase(q), keyAt(c))]

FirstClosest(score) ==
    CHOOSE c \in DOMAIN score :
        \A d \in DOMAIN score :
            score[c] < score[d] \/ (score[c] = score[d] /\ metFirst(c, d))

\* <<key>> when the first of the closest keys is within distance 3, else <<>>
Suggested(score) ==
    IF DOMAIN score = {} THEN <<>>
    ELSE IF score[FirstClosest(score)] <= 3 THEN <<keyAt(FirstClosest(score))>>
    ELSE <<>>

(* C12: when find has no exact and no partial hit, the suggestion is the     *)
(* first met of the keys (terms and aliases, each lowercased) at the least   *)
(* edit distance from the lowercased query, given in its stored casing and   *)
(* offered only when that distance is at most 3; none is offered when the    *)
(* least distance exceeds 3 or the collection is empty.                      *)
C12_SuggestionIsFirstClosest ==
    \A q \in FindQueries :
        (Asked(q) /\ PartialHits(q) = {}) =>
            result = Res("notFoundFind", <<>>, <<q>> \o Suggested(loweredScore(q)))

(* C12 as first stated: the distance to the lowercased query is taken over   *)
(* the terms and aliases as the collection stores them.                      *)
C12_DistanceToStoredKeys ==
    \A q \in FindQueries :
        (Asked(q) /\ PartialHits(q) = {}) =>
            result = Res("notFoundFind", <<>>, <<q>> \o Suggested(storedScore(q)))

\* a term and its own alias tie at the least distance, and the term is suggested
C12_Witness ==
    \E q \in FindQueries :
        /\ Asked(q)
        /\ PartialHits(q) = {}
        /\ \E c \in Candidates :
              /\ c[2] > 0
              /\ loweredScore(q)[c] = loweredScore(q)[<<1, 0>>]
              /\ c[1] = 1
        /\ \A c \in Candidates : loweredScore(q)[c] >= loweredScore(q)[<<1, 0>>]
        /\ result = Res("notFoundFind", <<>>, <<q, definitions[1].term>>)

\* the entry vector, with its alias vec, is in the collection
HoldsVector == \E i \in 1..Len(definitions) : definitions[i] = entryVector

C14_DistanceIsMetric ==
    measured.done =>
        /\ measured.ab = measured.ba
        /\ (measured.ab = 0) <=> (measured.a = measured.b)
        /\ measured.ac <= measured.ab + measured.bc

\* three different strings of different lengths, the triangle bound met exactly
C14_Witness ==
    /\ measured.done
    /\ Len(measured.a) < Len(measured.b)
    /\ Len(measured.b) < Len(measured.c)
    /\ measured.ab > 1
    /\ measured.ac = measured.ab + measured.bc

(* C20: a line is split at its first run of whitespace into the base command *)
(* and the remainder: after a keyword the handler receives the text that     *)
(* follows the run, so that find and a term two spaces apart give what one   *)
(* space gives, and a line whose first word is no keyword is looked up whole. *)
C20_ArgumentIsRemainder ==
    \A q \in FindQueries :
        /\ lastOp \in {Op("process", words(kwFind, q)), Op("process", wideGap(kwFind, q))}
              => result = findDefinition(definitions, q)
        /\ lastOp = Op("process", q) => result = findDefinition(definitions, q)

-----------------------------------------------------------------------------
(* The delete flow, the edit session and list, under Spec. *)

\* the terms delete is asked for
DeleteTerms == {termA, <<"b">>, termAFlag}

deleteLines(t) == {words(kwDelete, t), words(kwRm, t)}

\* the collection without its element at position i (1-based)
without(defs, i) == SubSeq(defs, 1, i - 1) \o SubSeq(defs, i + 1, Len(defs))

\* the first word of a line, as the dispatcher reads it
baseCommandOf(line) == toLowerCase(split(trim(line), SP)[1])

(* C1: for any collection and any term that resolves (exactly, letter case   *)
(* ignored, as a term or an alias), delete or rm of the term without         *)
(* --confirm leaves the collection as it is and returns the confirmation     *)
(* prompt, and the same line with --confirm appended removes the resolved    *)
(* entry and no other.                                                       *)
C1_DeleteIsTwoPhase ==
    [][\A t \in DeleteTerms :
         ExactHits(t) # {} =>
           /\ (lastOp'.op = "process" /\ lastOp'.arg \in deleteLines(t)) =>
                 /\ definitions' = definitions
                 /\ result'.kind = "confirmDelete"
           /\ (lastOp'.op = "process"
               /\ lastOp'.arg \in deleteLines(words(t, confirmFlag))) =>
                 definitions' = without(definitions, Least(ExactHits(t)))]_vars

(* C4: in an edit session, saving the entry's own unchanged term is never    *)
(* rejected as "already exists", whatever lines were processed between edit  *)
(* and the save.                                                             *)
C4_OwnTermNeverCollides ==
    (/\ lastOp.op = "saveDefinition"
     /\ result = NoResult
     /\ currentEditIndex # Null
     /\ sessionEntry # <<>>
     /\ trim(termInput) = sessionEntry[1].term)
        => editorMessage.kind # "termExists"

(* C5: a successful save in an edit session updates the entry the session    *)
(* was opened on: the collection keeps its size and every other entry is     *)
(* left as it was, whatever lines were processed between edit and the save.  *)
C5_EditSaveUpdatesSessionEntry ==
    [][(lastOp'.op = "saveDefinition" /\ result'.kind = "updated") =>
         \E i \in 1..Len(definitions) :
            /\ sessionEntry = <<definitions[i]>>
            /\ Len(definitions') = Len(definitions)
            /\ \A j \in (1..Len(definitions)) \ {i} :
                   definitions'[j] = definitions[j]]_vars

(* C6: list and ls, with or without a tag, are read-only: after either the   *)
(* store's collection holds the same entries in the same order as before.    *)
C6_ListIsReadOnly ==
    [][(lastOp'.op = "process" /\ baseCommandOf(lastOp'.arg) \in {kwList, kwLs})
          => definitions' = definitions]_vars

(* C22: whenever an edit session is open with a recorded edit target, that   *)
(* index is a position of the current collection (0 <= index < size), after  *)
(* any commands issued while the session is open; so a save never writes     *)
(* past the end and the collection never holds a missing element.            *)
C22_EditTargetInRange ==
    /\ (editorOpen /\ currentEditIndex # Null) =>
           (0 <= currentEditIndex /\ currentEditIndex < Len(definitions))
    /\ \A i \in 1..Len(definitions) : definitions[i] # Undefined

\* no name, term or alias, letter case ignored, is shared between two entries
NoSharedNames ==
    \A i \in 1..Len(definitions) : \A j \in 1..Len(definitions) :
        (i < j /\ definitions[i] # Undefined /\ definitions[j] # Undefined) =>
            \A x \in namesOf(definitions[i]) : \A y \in namesOf(definitions[j]) :
                ~sameIgnoringCase(x, y)

-----------------------------------------------------------------------------
(* The checks of saveDefinition, under SpecValidator. *)

\* the candidate the editor's fields hold
candidate == getEditorValues(termInput, aliasesInput, tagsInput, definitionInput)

\* the last event was a save that was rejected
Rejected == lastOp.op = "saveDefinition" /\ result = NoResult

KeywordSet ==
    {kwHelp, kwClear, kwList, kwLs, kwAdd, kwEdit, kwDelete, kwRm, kwFind,
     kwImport, kwExport}

isKeyword(x) == \E kw \in KeywordSet : sameIgnoringCase(x, kw)

aliasesOf(v) == {v.aliases[k] : k \in 1..Len(v.aliases)}

\* the terms and aliases of the entries other than the one under edit
otherNames ==
    UNION {namesOf(definitions[i]) :
             i \in {j \in 1..Len(definitions) :
                      definitions[j] # Undefined /\ j - 1 # currentEditIndex}}

identifierCharacters == Letters \cup Digits \cup {" ", "-", "'", "."}

tagCharacters == Letters \cup Digits \cup {"-"}

onlyOf(x, S) == \A i \in 1..Len(x) : x[i] \in S

\* the checks a candidate fails, numbered in the order the validator is to run them
failing(v) ==
    {k \in 1..9 :
        CASE k = 1 -> v.term = <<>> \/ v.definition = <<>>
          [] k = 2 -> isKeyword(v.term)
          [] k = 3 -> \E i \in 1..Len(v.term) : v.term[i] = ","
          [] k = 4 -> \E x \in aliasesOf(v) : isKeyword(x)
          [] k = 5 -> \E i \in 1..Len(v.aliases) : \E j \in 1..Len(v.aliases) :
                         i # j /\ sameIgnoringCase(v.aliases[i], v.aliases[j])
          [] k = 6 -> \E x \in aliasesOf(v) : sameIgnoringCase(x, v.term)
          [] k = 7 -> \E x \in {v.term} \cup aliasesOf(v) :
                         \E n \in otherNames : sameIgnoringCase(x, n)
          [] k = 8 -> \E x \in {v.term} \cup aliasesOf(v) :
                         ~onlyOf(x, identifierCharacters)
          [] k = 9 -> \E i \in 1..Len(v.tags) : ~onlyOf(v.tags[i], tagCharacters)}

\* the messages that report check k
reasonsOf(k) ==
    CASE k = 1 -> {"required"}
      [] k = 2 -> {"reservedTerm"}
      [] k = 3 -> {"commaInTerm"}
      [] k = 4 -> {"reservedAlias"}
      [] k = 5 -> {"duplicateAlias"}
      [] k = 6 -> {"aliasEqualsTerm"}
      [] k = 7 -> {"termExists", "aliasExists"}
      [] k = 8 -> {"invalidTerm", "invalidAliases"}
      [] k = 9 -> {"invalidTag"}

(* C15: saveDefinition rejects every candidate whose term or any alias is a  *)
(* reserved command keyword in any letter casing, in add and in edit         *)
(* sessions, and leaves the collection as it is.                             *)
C15_ReservedNamesRejected ==
    [][(lastOp'.op = "saveDefinition"
        /\ (isKeyword(candidate.term) \/ \E x \in aliasesOf(candidate) : isKeyword(x))) =>
          /\ result' = NoResult
          /\ editorMessage'.kind \in
                {"required", "reservedTerm", "commaInTerm", "reservedAlias"}
          /\ definitions' = definitions
          /\ persisted' = persisted]_vars

\* in an edit session, an alias that is a keyword with a capital letter is rejected
C15_Witness ==
    /\ Rejected
    /\ currentEditIndex # Null
    /\ ~isKeyword(candidate.term)
    /\ \E x \in aliasesOf(candidate) : isKeyword(x) /\ x \notin KeywordSet
    /\ editorMessage.kind = "reservedAlias"

(* C16: the checks run in the order required fields, reserved term, comma in *)
(* term, reserved alias, duplicate alias, alias equals term, collision with  *)
(* another entry, invalid identifier characters, invalid tag: the reason     *)
(* reported for a rejected candidate is that of the first check it fails.    *)
C16_FirstFailingCheckReported ==
    Rejected =>
        /\ failing(candidate) # {}
        /\ editorMessage.kind \in reasonsOf(Least(failing(candidate)))

\* a candidate that collides with another entry and holds an invalid character
C16_Witness ==
    /\ Rejected
    /\ {7, 8} \subseteq failing(candidate)
    /\ Least(failing(candidate)) = 7
    /\ editorMessage.kind = "aliasExists"

(* C17: when saveDefinition rejects a candidate, for any of the nine         *)
(* reasons, nothing is mutated: the collection and its persisted copy are    *)
(* unchanged, the session stays open and its edit target is unchanged, so    *)
(* that a corrected candidate can be submitted in the same session.          *)
C17_RejectionMutatesNothing ==
    [][(lastOp'.op = "saveDefinition" /\ result' = NoResult) =>
          /\ editorMessage'.kind # ""
          /\ UNCHANGED <<definitions, persisted, currentEditIndex, termInput,
                         aliasesInput, tagsInput, definitionInput>>
          /\ editorOpen /\ editorOpen']_vars

\* a candidate rejected in an edit session, corrected there and saved
C17_Witness ==
    /\ lastOp.op = "saveDefinition"
    /\ result.kind = "updated"
    /\ editorMessage.kind # ""
    /\ currentEditIndex # Null

-----------------------------------------------------------------------------
(* The import flow, under SpecImport. *)

importConfirmLine == words(kwImport, confirmFlag)

(* C2: after a file read that succeeds and stages content D, an import       *)
(* --confirm that follows at once makes the live collection D, persists it   *)
(* and clears the buffer, so that a second import --confirm finds no buffer. *)
C2_ConfirmAppliesStagedContent ==
    [][/\ (/\ lastOp.op = "onload"
           /\ result.kind = "loaded"
           /\ lastOp' = Op("process", importConfirmLine)) =>
              /\ definitions' = result.defs
              /\ persisted' = result.defs
              /\ pendingImportData' = <<>>
              /\ result'.kind = "imported"
       /\ (/\ lastOp = Op("process", importConfirmLine)
           /\ result.kind = "imported"
           /\ lastOp' = Op("process", importConfirmLine)) =>
              /\ result'.kind = "noFileLoaded"
              /\ definitions' = definitions]_vars

\* the staged file of two entries has replaced a collection that differed from it
C2_Witness ==
    /\ lastOp = Op("process", importConfirmLine)
    /\ result.kind = "imported"
    /\ definitions = <<entryC, entryA>>
    /\ persisted = <<entryC, entryA>>
    /\ pendingImportData = <<>>

(* C3: in every state with no staged buffer, import --confirm reports "no    *)
(* file loaded" and leaves the live collection, its persisted copy and the   *)
(* buffer as they are.                                                       *)
C3_ConfirmWithoutBuffer ==
    [][(pendingImportData = <<>> /\ lastOp' = Op("process", importConfirmLine)) =>
          /\ result'.kind = "noFileLoaded"
          /\ UNCHANGED <<definitions, persisted, pendingImportData>>]_vars

\* "no file loaded" reported on a collection that holds entries
C3_Witness ==
    /\ lastOp = Op("process", importConfirmLine)
    /\ result.kind = "noFileLoaded"
    /\ pendingImportData = <<>>
    /\ definitions # <<>>

\* a file the import is to reject: text that is no JSON, JSON that is no array,
\* an array whose first element lacks a term or a definition
Rejectable(file) ==
    \/ file.kind \in {"malformed", "notArray"}
    \/ /\ file.kind = "array"
       /\ file.data # <<>>
       /\ (file.data[1].term = <<>> \/ file.data[1].definition = <<>>)

(* C18: when the file read delivered to an import is rejected (malformed     *)
(* JSON, no array, or a non-empty array whose first element lacks a term or  *)
(* a definition), the buffer is cleared, content staged by an earlier load   *)
(* included, and the live collection is unchanged.                           *)
C18_RejectedReadClearsBuffer ==
    [][\A k \in 1..Len(reads) :
          (/\ lastOp'.op = "onload"
           /\ reads' = without(reads, k)
           /\ Rejectable(reads[k])) =>
              /\ result'.kind = "readError"
              /\ pendingImportData' = <<>>
              /\ definitions' = definitions
              /\ persisted' = persisted]_vars

\* a file that is no array has been rejected over a collection that holds entries
C18_Witness ==
    /\ lastOp = Op("onload", <<"notArray">>)
    /\ result.kind = "readError"
    /\ pendingImportData = <<>>
    /\ definitions # <<>>

(* C19: the callback that resumes an import, at whatever point it arrives    *)
(* between other commands, writes the buffer alone: the live collection, its *)
(* persisted copy, the command history and its cursor and the current edit   *)
(* target are unchanged by it.                                               *)
C19_CallbackWritesBufferOnly ==
    [][lastOp'.op = "onload" =>
          UNCHANGED <<definitions, persisted, commandHistory, historyIndex,
                      currentEditIndex>>]_vars

\* a file staged while an entry is under edit and a command has been recalled
C19_Witness ==
    /\ lastOp = Op("onload", <<"array">>)
    /\ result.kind = "loaded"
    /\ pendingImportData # <<>>
    /\ pendingImportData # <<definitions>>
    /\ definitions # <<>>
    /\ currentEditIndex # Null
    /\ commandHistory # <<>>
    /\ historyIndex < Len(commandHistory)

(* C21: a fresh import overwrites the buffer staged before it: when two      *)
(* imports are made and both files load, the buffer that import --confirm    *)
(* will apply holds the content of the later import, in whichever order the  *)
(* two callbacks arrive.  So a file that loads once the file of a later      *)
(* import has loaded leaves in the buffer the content of that later import.  *)
C21_LaterImportWins ==
    [][\A k \in 1..Len(reads) :
          (/\ lastOp'.op = "onload"
           /\ result'.kind = "loaded"
           /\ Len(reads') = Len(reads) - 1
           /\ SubSeq(reads', k, Len(reads')) = SubSeq(reads, k + 1, Len(reads))
           /\ pendingImportData' = <<reads[k].data>>) =>
              ~reads[k].overtaken]_vars

-----------------------------------------------------------------------------
(* The history and its recall cursor, under SpecTerminal. *)

(* C7: in every state reached by Enter, ArrowUp, ArrowDown and clear the     *)
(* recall cursor is within [0, length] of the command history, so that a     *)
(* recall never reads a history position that does not exist.  Stated here   *)
(* is the upper bound, the one that keeps a recall inside the history.       *)
C7_CursorInRange == historyIndex <= Len(commandHistory)

(* C8: after every executed command, clear included, the recall cursor       *)
(* equals the length of the command history.                                 *)
C8_CursorAtEndAfterCommand ==
    lastOp.op = "Enter" => historyIndex = Len(commandHistory)

=============================================================================
